---- MODULE Spec2Model ----
(***************************************************************************)
(* A model of the sorted set of src/sortedset.go: a red-black tree with    *)
(* top-down colour flips on insertion and fixUp on deletion, and the set   *)
(* operations built on its traversal.                                      *)
(*                                                                         *)
(* A tree is a value: Nil, a node record, or Panic.  Panic is the outcome  *)
(* of dereferencing a nil *node (a Go run-time panic); every function      *)
(* that reads a field of its argument yields Panic when the argument is    *)
(* not a node, and Panic propagates to the caller.  The Go code mutates    *)
(* nodes in place and returns the subtree's new root; since no operation   *)
(* of the package makes two sets share a node, "the subtree after the      *)
(* call" is modelled by the returned value.                                *)
(***************************************************************************)
EXTENDS Integers, Sequences, FiniteSets, TLC

\* Bounds of the model.
MaxElem == 5
MaxSize == 5
MaxNew == 2
MaxElemAlg == 3
MaxStop == 3
MaxStart == 1
MaxElemBal == 6
MaxElemIter == 4

Elems == 1..MaxElem

ElemsAlg == 1..MaxElemAlg
ElemsBal == 1..MaxElemBal
ElemsIter == 1..MaxElemIter

VARIABLES me, other, res, last, panicked, addsOnly, ref

vars == <<me, other, res, last, panicked, addsOnly, ref>>

-----------------------------------------------------------------------------
\* The tree engine.

Nil == [k |-> "nil"]

Panic == [k |-> "panic"]

\* &node[E]{element, red, left, right}; a panic while computing a child
\* aborts the construction.
Node(element, red, left, right) ==
  IF left = Panic \/ right = Panic
  THEN Panic
  ELSE [k |-> "node", element |-> element, red |-> red,
        left |-> left, right |-> right]

isRed(root) == root.k = "node" /\ root.red

flipChild(child) ==
  IF child.k = "node" THEN [child EXCEPT !.red = ~child.red] ELSE child

colorFlip(root) ==
  IF root.k # "node"
  THEN Panic
  ELSE Node(root.element, ~root.red, flipChild(root.left),
            flipChild(root.right))

rotateLeft(root) ==
  IF root.k # "node"
  THEN Panic
  ELSE LET x == root.right
       IN IF x.k # "node"
          THEN Panic
          ELSE Node(x.element, root.red,
                    Node(root.element, TRUE, root.left, x.left), x.right)

rotateRight(root) ==
  IF root.k # "node"
  THEN Panic
  ELSE LET x == root.left
       IN IF x.k # "node"
          THEN Panic
          ELSE Node(x.element, root.red, x.left,
                    Node(root.element, TRUE, x.right, root.right))

insertRotation(root) ==
  IF root.k # "node"
  THEN Panic
  ELSE LET r1 == IF isRed(root.right) /\ ~isRed(root.left)
                 THEN rotateLeft(root)
                 ELSE root
       IN IF r1.k # "node"
          THEN Panic
          ELSE IF isRed(r1.left) /\ isRed(r1.left.left)
               THEN rotateRight(r1)
               ELSE r1

RECURSIVE insert(_, _)
insert(root, element) ==
  IF root = Nil
  THEN [root |-> Node(element, TRUE, Nil, Nil), inserted |-> TRUE]
  ELSE IF root.k # "node"
  THEN [root |-> Panic, inserted |-> FALSE]
  ELSE LET r1 == IF isRed(root.left) /\ isRed(root.right)
                 THEN colorFlip(root)
                 ELSE root
       IN IF r1.k # "node"
          THEN [root |-> Panic, inserted |-> FALSE]
          ELSE IF element < r1.element
          THEN LET sub == insert(r1.left, element)
               IN [root |-> insertRotation(
                              Node(r1.element, r1.red, sub.root, r1.right)),
                   inserted |-> sub.inserted]
          ELSE IF r1.element < element
          THEN LET sub == insert(r1.right, element)
               IN [root |-> insertRotation(
                              Node(r1.element, r1.red, r1.left, sub.root)),
                   inserted |-> sub.inserted]
          ELSE [root |-> insertRotation(r1), inserted |-> FALSE]

fixUp(root) ==
  IF root.k # "node"
  THEN Panic
  ELSE LET r1 == IF isRed(root.right) THEN rotateLeft(root) ELSE root
       IN IF r1.k # "node"
          THEN Panic
          ELSE LET r2 == IF isRed(r1.left) /\ isRed(r1.left.left)
                         THEN rotateRight(r1)
                         ELSE r1
               IN IF r2.k # "node"
                  THEN Panic
                  ELSE IF isRed(r2.left) /\ isRed(r2.right)
                       THEN colorFlip(r2)
                       ELSE r2

moveRedLeft(root) ==
  LET r1 == colorFlip(root)
  IN IF r1.k # "node"
     THEN Panic
     ELSE IF r1.right # Nil /\ isRed(r1.right.left)
          THEN colorFlip(rotateLeft(
                 Node(r1.element, r1.red, r1.left, rotateRight(r1.right))))
          ELSE r1

moveRedRight(root) ==
  LET r1 == colorFlip(root)
  IN IF r1.k # "node"
     THEN Panic
     ELSE IF r1.left # Nil /\ isRed(r1.left.left)
          THEN colorFlip(rotateRight(r1))
          ELSE r1

RECURSIVE first(_)
first(root) ==
  IF root.k # "node"
  THEN Panic
  ELSE IF root.left # Nil THEN first(root.left) ELSE root

RECURSIVE deleteMinimum(_)
deleteMinimum(root) ==
  IF root.k # "node"
  THEN Panic
  ELSE IF root.left = Nil
  THEN Nil
  ELSE LET r1 == IF ~isRed(root.left) /\ ~isRed(root.left.left)
                 THEN moveRedLeft(root)
                 ELSE root
       IN IF r1.k # "node"
          THEN Panic
          ELSE fixUp(Node(r1.element, r1.red, deleteMinimum(r1.left),
                          r1.right))

RECURSIVE delete_(_, _)

deleteRight(root, element) ==
  IF root.k # "node"
  THEN [root |-> Panic, deleted |-> FALSE]
  ELSE IF root.right.k # "node"
  THEN [root |-> Panic, deleted |-> FALSE]
  ELSE LET r1 == IF ~isRed(root.right) /\ ~isRed(root.right.left)
                 THEN moveRedRight(root)
                 ELSE root
       IN IF r1.k # "node"
          THEN [root |-> Panic, deleted |-> FALSE]
          ELSE IF element = r1.element
          THEN LET smallest == first(r1.right)
               IN IF smallest.k # "node"
                  THEN [root |-> Panic, deleted |-> FALSE]
                  ELSE [root |-> Node(smallest.element, r1.red, r1.left,
                                      deleteMinimum(r1.right)),
                        deleted |-> TRUE]
          ELSE LET sub == delete_(r1.right, element)
               IN [root |-> Node(r1.element, r1.red, r1.left, sub.root),
                   deleted |-> sub.deleted]

\* A delete_ that unlinks a node without a right child whatever its element.
deleteNoEqual(root, element) ==
  IF root.k # "node"
  THEN [root |-> Panic, deleted |-> FALSE]
  ELSE IF element < root.element
  THEN IF root.left # Nil
       THEN LET r1 == IF ~isRed(root.left) /\ ~isRed(root.left.left)
                      THEN moveRedLeft(root)
                      ELSE root
            IN IF r1.k # "node"
               THEN [root |-> Panic, deleted |-> FALSE]
               ELSE LET sub == delete_(r1.left, element)
                    IN [root |-> fixUp(Node(r1.element, r1.red, sub.root,
                                            r1.right)),
                        deleted |-> sub.deleted]
       ELSE [root |-> fixUp(root), deleted |-> FALSE]
  ELSE LET r1 == IF isRed(root.left) THEN rotateRight(root) ELSE root
       IN IF r1.k # "node"
          THEN [root |-> Panic, deleted |-> FALSE]
          ELSE IF r1.right = Nil
          THEN [root |-> Nil, deleted |-> TRUE]
          ELSE LET dr == deleteRight(r1, element)
               IN [root |-> fixUp(dr.root), deleted |-> dr.deleted]

delete_(root, element) ==
  IF root.k # "node"
  THEN [root |-> Panic, deleted |-> FALSE]
  ELSE IF element < root.element
  THEN IF root.left # Nil
       THEN LET r1 == IF ~isRed(root.left) /\ ~isRed(root.left.left)
                      THEN moveRedLeft(root)
                      ELSE root
            IN IF r1.k # "node"
               THEN [root |-> Panic, deleted |-> FALSE]
               ELSE LET sub == delete_(r1.left, element)
                    IN [root |-> fixUp(Node(r1.element, r1.red, sub.root,
                                            r1.right)),
                        deleted |-> sub.deleted]
       ELSE [root |-> fixUp(root), deleted |-> FALSE]
  ELSE LET r1 == IF isRed(root.left) THEN rotateRight(root) ELSE root
       IN IF r1.k # "node"
          THEN [root |-> Panic, deleted |-> FALSE]
          ELSE IF element = r1.element /\ r1.right = Nil
          THEN [root |-> Nil, deleted |-> TRUE]
          ELSE IF r1.right # Nil
          THEN LET dr == deleteRight(r1, element)
               IN [root |-> fixUp(dr.root), deleted |-> dr.deleted]
          ELSE [root |-> fixUp(r1), deleted |-> FALSE]

\* The course of a deletion: the node at which nil was returned in its place
\* (Nil when none was), as it was at that moment, and the nodes on which
\* delete_ or deleteMinimum was called recursively, as they were when called.
\* The descent repeats the steps of deleteMinimum, delete_ and deleteRight.
NoCourse == [unlinked |-> Nil, callees |-> {}]

Called(node, course) ==
  [unlinked |-> course.unlinked, callees |-> {node} \cup course.callees]

RECURSIVE deleteMinimumCourse(_)
deleteMinimumCourse(root) ==
  IF root.k # "node"
  THEN NoCourse
  ELSE IF root.left = Nil
  THEN [unlinked |-> root, callees |-> {}]
  ELSE LET r1 == IF ~isRed(root.left) /\ ~isRed(root.left.left)
                 THEN moveRedLeft(root)
                 ELSE root
       IN IF r1.k # "node"
          THEN NoCourse
          ELSE Called(r1.left, deleteMinimumCourse(r1.left))

RECURSIVE deleteCourse(_, _)

deleteRightCourse(root, element) ==
  IF root.k # "node" \/ root.right.k # "node"
  THEN NoCourse
  ELSE LET r1 == IF ~isRed(root.right) /\ ~isRed(root.right.left)
                 THEN moveRedRight(root)
                 ELSE root
       IN IF r1.k # "node"
          THEN NoCourse
          ELSE IF element = r1.element
          THEN Called(r1.right, deleteMinimumCourse(r1.right))
          ELSE Called(r1.right, deleteCourse(r1.right, element))

deleteCourse(root, element) ==
  IF root.k # "node"
  THEN NoCourse
  ELSE IF element < root.element
  THEN IF root.left # Nil
       THEN LET r1 == IF ~isRed(root.left) /\ ~isRed(root.left.left)
                      THEN moveRedLeft(root)
                      ELSE root
            IN IF r1.k # "node"
               THEN NoCourse
               ELSE Called(r1.left, deleteCourse(r1.left, element))
       ELSE NoCourse
  ELSE LET r1 == IF isRed(root.left) THEN rotateRight(root) ELSE root
       IN IF r1.k # "node"
          THEN NoCourse
          ELSE IF element = r1.element /\ r1.right = Nil
          THEN [unlinked |-> r1, callees |-> {}]
          ELSE IF r1.right # Nil
          THEN deleteRightCourse(r1, element)
          ELSE NoCourse

\* all(root, yield) with a consumer that never stops: the elements in the
\* order in which yield receives them.
RECURSIVE all(_)

\* A traversal that yields a node before its left subtree.
allPreOrder(root) ==
  IF root.k = "node"
  THEN <<root.element>> \o all(root.left) \o all(root.right)
  ELSE <<>>

all(root) ==
  IF root.k = "node"
  THEN all(root.left) \o <<root.element>> \o all(root.right)
  ELSE <<>>

\* The consumer of a traversal: the body of a for-range loop that leaves
\* the loop at its stopAt-th element (stopAt = 0: it never leaves).  out is
\* what it has received, stopped tells that yield has returned false, and
\* after records a call of yield, or a visit of a node, after that.
Consumer(stopAt) ==
  [out |-> <<>>, stopAt |-> stopAt, stopped |-> FALSE, after |-> FALSE]

yield(st, element) ==
  IF st.stopped
  THEN [ok |-> FALSE, st |-> [st EXCEPT !.after = TRUE]]
  ELSE LET out == Append(st.out, element)
           stop == Len(out) = st.stopAt
       IN [ok |-> ~stop, st |-> [st EXCEPT !.out = out, !.stopped = stop]]

RECURSIVE allYield(_, _)

\* A traversal that goes on after yield has returned false.
allNoShortCircuit(root, st) ==
  IF root.k = "node"
  THEN LET l == allYield(root.left, st)
           y == yield(l.st, root.element)
           r == allYield(root.right, y.st)
       IN [ok |-> l.ok /\ y.ok /\ r.ok, st |-> r.st]
  ELSE [ok |-> TRUE, st |-> st]

\* all(root, yield): left subtree && yield(root.element) && right subtree.
allYield(root, st) ==
  IF root.k = "node"
  THEN LET entered == IF st.stopped THEN [st EXCEPT !.after = TRUE] ELSE st
           l == allYield(root.left, entered)
       IN IF ~l.ok
          THEN l
          ELSE LET y == yield(l.st, root.element)
               IN IF ~y.ok THEN y ELSE allYield(root.right, y.st)
  ELSE [ok |-> TRUE, st |-> st]

-----------------------------------------------------------------------------
\* The set: SortedSet{root, size}.

SortedSet(root, size) == [root |-> root, size |-> size]

EmptySet == SortedSet(Nil, 0)

SetLen(s) == s.size

IsEmpty(s) == s.size = 0

\* A call that panicked leaves a set whose root is Panic.
Panicked(s) == s.root = Panic

\* An Add that counts every call, also of an element already present.
AddAlwaysCounts(s, element) ==
  LET r == insert(s.root, element)
  IN IF r.root.k # "node"
     THEN [set |-> SortedSet(Panic, s.size), ret |-> FALSE]
     ELSE [set |-> SortedSet([r.root EXCEPT !.red = FALSE], s.size + 1),
           ret |-> r.inserted]

Add(s, element) ==
  LET r == insert(s.root, element)
  IN IF r.root.k # "node"
     THEN [set |-> SortedSet(Panic, s.size), ret |-> FALSE]
     ELSE [set |-> SortedSet([r.root EXCEPT !.red = FALSE],
                             IF r.inserted THEN s.size + 1 ELSE s.size),
           ret |-> r.inserted]

\* A Delete without the special case for the empty tree.
DeleteNoNilCheck(s, element) ==
  LET r == delete_(s.root, element)
      size == IF r.deleted THEN s.size - 1 ELSE s.size
  IN IF r.root = Panic
     THEN [set |-> SortedSet(Panic, s.size), ret |-> FALSE]
     ELSE IF r.root # Nil
     THEN [set |-> SortedSet([r.root EXCEPT !.red = FALSE], size),
           ret |-> r.deleted]
     ELSE [set |-> SortedSet(Nil, size), ret |-> r.deleted]

Delete(s, element) ==
  IF s.root # Nil
  THEN LET r == delete_(s.root, element)
           size == IF r.deleted THEN s.size - 1 ELSE s.size
       IN IF r.root = Panic
          THEN [set |-> SortedSet(Panic, s.size), ret |-> FALSE]
          ELSE IF r.root # Nil
          THEN [set |-> SortedSet([r.root EXCEPT !.red = FALSE], size),
                ret |-> r.deleted]
          ELSE [set |-> SortedSet(Nil, size), ret |-> r.deleted]
  ELSE [set |-> s, ret |-> FALSE]

Clear(s) == SortedSet(Nil, 0)

RECURSIVE containsLoop(_, _)
containsLoop(root, element) ==
  IF root.k # "node"
  THEN FALSE
  ELSE IF element < root.element
  THEN containsLoop(root.left, element)
  ELSE IF root.element < element
  THEN containsLoop(root.right, element)
  ELSE TRUE

Contains(s, element) == containsLoop(s.root, element)

ToSlice(s) == all(s.root)

\* for element := range s.All() with a consumer that stops at stopAt.
All(s, stopAt) == allYield(s.root, Consumer(stopAt)).st

\* An AllX that never advances its index.
AllXNoIncrement(s, start, stopAt) ==
  LET i == IF Len(start) > 0 THEN start[1] ELSE 0
      st == All(s, stopAt)
  IN [st EXCEPT !.out = [j \in 1..Len(st.out) |-> <<i, st.out[j]>>]]

\* AllX(start...): the loop over All() hands yield the index and the key,
\* returns when yield returns false (which ends All) and else advances the
\* index.
AllX(s, start, stopAt) ==
  LET i == IF Len(start) > 0 THEN start[1] ELSE 0
      st == All(s, stopAt)
  IN [st EXCEPT !.out = [j \in 1..Len(st.out) |->
                           <<i + (j - 1), st.out[j]>>]]

\* New(elements...): Add each element, in order, to an empty set.
RECURSIVE newLoop(_, _)
newLoop(sset, elements) ==
  IF elements = <<>>
  THEN sset
  ELSE newLoop(Add(sset, Head(elements)).set, Tail(elements))

New(elements) == newLoop(EmptySet, elements)

Clone(s) == newLoop(EmptySet, all(s.root))

Equal(s, o) ==
  IF SetLen(s) # SetLen(o)
  THEN FALSE
  ELSE LET elements == all(s.root)
       IN \A i \in 1..Len(elements) : Contains(o, elements[i])

\* A Unite that ranges over the receiver instead of the argument.
UniteSelf(s, o) == newLoop(s, all(s.root))

Unite(s, o) == newLoop(s, all(o.root))

Union(s, o) == Unite(Clone(s), o)

RECURSIVE differenceLoop(_, _, _)
differenceLoop(diff, elements, o) ==
  IF elements = <<>>
  THEN diff
  ELSE differenceLoop(IF ~Contains(o, Head(elements))
                      THEN Add(diff, Head(elements)).set
                      ELSE diff,
                      Tail(elements), o)

\* A Difference that tests membership in the receiver.
DifferenceSelf(s, o) == differenceLoop(EmptySet, all(s.root), s)

Difference(s, o) == differenceLoop(EmptySet, all(s.root), o)

\* A SymmetricDifference without its second loop.
SymmetricDifferenceOneWay(s, o) == differenceLoop(EmptySet, all(s.root), o)

SymmetricDifference(s, o) ==
  differenceLoop(differenceLoop(EmptySet, all(s.root), o), all(o.root), s)

RECURSIVE intersectionLoop(_, _, _)
intersectionLoop(intersection, elements, o) ==
  IF elements = <<>>
  THEN intersection
  ELSE intersectionLoop(IF Contains(o, Head(elements))
                        THEN Add(intersection, Head(elements)).set
                        ELSE intersection,
                        Tail(elements), o)

\* An Intersection that keeps the elements the argument does not contain.
IntersectionNegated(s, o) == differenceLoop(EmptySet, all(s.root), o)

Intersection(s, o) == intersectionLoop(EmptySet, all(s.root), o)

\* An IsDisjoint that returns false at the first element not in the argument.
IsDisjointInverted(s, o) ==
  LET elements == all(s.root)
  IN \A i \in 1..Len(elements) : Contains(o, elements[i])

IsDisjoint(s, o) ==
  LET elements == all(s.root)
  IN \A i \in 1..Len(elements) : ~Contains(o, elements[i])

\* An IsSubsetOf that returns false at the first element in the argument.
IsSubsetOfInverted(s, o) ==
  LET elements == all(s.root)
  IN \A i \in 1..Len(elements) : ~Contains(o, elements[i])

IsSubsetOf(s, o) ==
  LET elements == all(s.root)
  IN \A i \in 1..Len(elements) : Contains(o, elements[i])

IsSupersetOf(s, o) == IsSubsetOf(o, s)

-----------------------------------------------------------------------------
\* The program: a receiver set me, an argument set other, the set returned
\* by the last call (res) and a record of the last call (last).  ref is the
\* mathematical set that the calls on me describe; addsOnly tells whether me
\* was built by Add alone since it was last empty.

Range(seq) == {seq[i] : i \in 1..Len(seq)}

Elements(s) == Range(all(s.root))

SeqsUpTo(S, n) == UNION {[1..m -> S] : m \in 0..n}

Call(op, arg, ret, pre, out) ==
  [op |-> op, arg |-> arg, ret |-> ret, pre |-> pre, out |-> out]

Init ==
  /\ me = EmptySet
  /\ other = EmptySet
  /\ res = EmptySet
  /\ last = Call("init", 0, FALSE, EmptySet, <<>>)
  /\ panicked = FALSE
  /\ addsOnly = TRUE
  /\ ref = {}

\* A call on me that ends with the receiver newMe, or panics.
Mutate(op, arg, ret, newMe, newRef, newAddsOnly) ==
  /\ last' = Call(op, arg, ret, me, <<>>)
  /\ res' = EmptySet
  /\ UNCHANGED other
  /\ IF Panicked(newMe)
     THEN /\ panicked' = TRUE
          /\ UNCHANGED <<me, ref, addsOnly>>
     ELSE /\ me' = newMe
          /\ ref' = newRef
          /\ addsOnly' = newAddsOnly
          /\ UNCHANGED panicked

\* A call that reads me (and other) and returns ret, out or the set newRes.
Query(op, arg, ret, out, newRes) ==
  /\ last' = Call(op, arg, ret, me, out)
  /\ UNCHANGED <<me, other, ref, addsOnly>>
  /\ IF Panicked(newRes)
     THEN /\ panicked' = TRUE
          /\ res' = EmptySet
     ELSE /\ res' = newRes
          /\ UNCHANGED panicked

\* An Add step that leaves the root as insert returned it.
AddStepRootUnforced(element) ==
  LET r == Add(me, element)
      raw == insert(me.root, element).root
  IN /\ ~panicked
     /\ r.set.size <= MaxSize
     /\ Mutate("Add", element, r.ret, SortedSet(raw, r.set.size),
               ref \cup {element}, addsOnly)

AddStep(element) ==
  LET r == Add(me, element)
  IN /\ ~panicked
     /\ r.set.size <= MaxSize
     /\ Mutate("Add", element, r.ret, r.set, ref \cup {element}, addsOnly)

DeleteStep(element) ==
  LET r == Delete(me, element)
  IN /\ ~panicked
     /\ Mutate("Delete", element, r.ret, r.set, ref \ {element}, FALSE)

ClearStep ==
  /\ ~panicked
  /\ Mutate("Clear", 0, FALSE, Clear(me), {}, TRUE)

\* The set is constructed once, before any call on it.
NewStep(elements) ==
  /\ ~panicked
  /\ last.op = "init"
  /\ Mutate("New", 0, FALSE, New(elements), Range(elements), TRUE)

ContainsStep(element) ==
  /\ ~panicked
  /\ Query("Contains", element, Contains(me, element), <<>>, EmptySet)

ToSliceStep ==
  /\ ~panicked
  /\ Query("ToSlice", 0, FALSE, ToSlice(me), EmptySet)

\* clone := me.Clone(); me.Equal(clone)
CloneStep ==
  LET clone == Clone(me)
  IN /\ ~panicked
     /\ Query("Clone", 0, Equal(me, clone), <<>>, clone)

EqualStep ==
  /\ ~panicked
  /\ Query("Equal", 0, Equal(me, other), <<>>, EmptySet)

Next ==
  \/ \E element \in Elems : AddStep(element)
  \/ \E element \in Elems : DeleteStep(element)
  \/ ClearStep
  \/ \E elements \in SeqsUpTo(Elems, MaxNew) : NewStep(elements)
  \/ \E element \in Elems : ContainsStep(element)
  \/ ToSliceStep
  \/ CloneStep
  \/ EqualStep

Spec == Init /\ [][Next]_vars

\* The calls that take a second set.
NewOtherStep(elements) ==
  /\ ~panicked
  /\ last.op = "init"
  /\ ~Panicked(New(elements))
  /\ other' = New(elements)
  /\ last' = Call("NewOther", 0, FALSE, me, <<>>)
  /\ res' = EmptySet
  /\ UNCHANGED <<me, panicked, addsOnly, ref>>

\* A Union that unites the argument into the receiver itself and returns it.
UnionInPlaceStep ==
  LET united == Unite(me, other)
  IN /\ ~panicked
     /\ ~Panicked(united)
     /\ united.size <= MaxSize
     /\ last' = Call("Union", 0, FALSE, me, <<>>)
     /\ me' = united
     /\ res' = united
     /\ UNCHANGED <<other, panicked, addsOnly, ref>>

UnionStep ==
  /\ ~panicked
  /\ Query("Union", 0, FALSE, <<>>, Union(me, other))

UniteStep ==
  LET united == Unite(me, other)
  IN /\ ~panicked
     /\ united.size <= MaxSize
     /\ Mutate("Unite", 0, FALSE, united, ref \cup Elements(other), addsOnly)

DifferenceStep ==
  /\ ~panicked
  /\ Query("Difference", 0, FALSE, <<>>, Difference(me, other))

\* x := me.Intersection(other); a := other.Intersection(me); x.Equal(a)
IntersectionStep ==
  LET x == Intersection(me, other)
      a == Intersection(other, me)
  IN /\ ~panicked
     /\ Query("Intersection", 0, Equal(x, a), <<>>, x)

\* d := me.SymmetricDifference(other); e := other.SymmetricDifference(me);
\* d.Equal(e)
SymmetricDifferenceStep ==
  LET d == SymmetricDifference(me, other)
      e == SymmetricDifference(other, me)
  IN /\ ~panicked
     /\ Query("SymmetricDifference", 0, Equal(d, e), <<>>, d)

IsDisjointStep ==
  /\ ~panicked
  /\ Query("IsDisjoint", 0, IsDisjoint(me, other), <<>>, EmptySet)

IsSubsetOfStep ==
  /\ ~panicked
  /\ Query("IsSubsetOf", 0, IsSubsetOf(me, other), <<>>, EmptySet)

IsSupersetOfStep ==
  /\ ~panicked
  /\ Query("IsSupersetOf", 0, IsSupersetOf(me, other), <<>>, EmptySet)

NextAlg ==
  \/ \E element \in ElemsAlg : AddStep(element)
  \/ \E element \in ElemsAlg : DeleteStep(element)
  \/ ClearStep
  \/ \E elements \in SeqsUpTo(ElemsAlg, MaxNew) : NewOtherStep(elements)
  \/ UnionStep
  \/ UniteStep
  \/ DifferenceStep
  \/ IntersectionStep
  \/ SymmetricDifferenceStep
  \/ IsDisjointStep
  \/ IsSubsetOfStep
  \/ IsSupersetOfStep
  \/ EqualStep
  \/ \E element \in ElemsAlg : ContainsStep(element)
  \/ ToSliceStep
  \/ CloneStep

SpecAlg == Init /\ [][NextAlg]_vars

\* The traversals and their consumers.
StartArgs == {<<>>} \cup {<<n>> : n \in 0..MaxStart}

IterCall(op, start, st) ==
  [op |-> op, arg |-> st.stopAt, ret |-> st.after, pre |-> me,
   out |-> st.out, start |-> start]

AllStep(stopAt) ==
  /\ ~panicked
  /\ last' = IterCall("All", <<>>, All(me, stopAt))
  /\ res' = EmptySet
  /\ UNCHANGED <<me, other, panicked, addsOnly, ref>>

AllXStep(start, stopAt) ==
  /\ ~panicked
  /\ last' = IterCall("AllX", start, AllX(me, start, stopAt))
  /\ res' = EmptySet
  /\ UNCHANGED <<me, other, panicked, addsOnly, ref>>

NextIter ==
  \/ \E element \in ElemsIter : AddStep(element)
  \/ \E element \in ElemsIter : DeleteStep(element)
  \/ ClearStep
  \/ \E stopAt \in 0..MaxStop : AllStep(stopAt)
  \/ \E start \in StartArgs, stopAt \in 0..MaxStop : AllXStep(start, stopAt)

SpecIter == Init /\ [][NextIter]_vars

-----------------------------------------------------------------------------
\* Properties.

StrictlyAscending(seq) == \A i \in 1..(Len(seq) - 1) : seq[i] < seq[i + 1]

RECURSIVE SortedSeq(_)
SortedSeq(S) ==
  IF S = {}
  THEN <<>>
  ELSE LET m == CHOOSE x \in S : \A y \in S : x <= y
       IN <<m>> \o SortedSeq(S \ {m})

\* C1: after any sequence of Add, Delete and Clear calls (or New), the
\* traversal is strictly ascending and Len() equals the number of elements
\* the traversal yields.
C1_TraversalAndLen ==
  /\ StrictlyAscending(all(me.root))
  /\ SetLen(me) = Len(all(me.root))

\* C2: Contains(e) is true exactly when e is in the reference set obtained
\* by applying the same calls to a mathematical set.
C2_ContainsIsReference ==
  \A e \in Elems : Contains(me, e) <=> e \in ref

\* C3: Delete(e) of a contained element returns true, decreases Len() by
\* one, removes e and keeps every other element.
C3_DeletePresent ==
  (last.op = "Delete" /\ Contains(last.pre, last.arg)) =>
    /\ last.ret
    /\ SetLen(me) = SetLen(last.pre) - 1
    /\ ~Contains(me, last.arg)
    /\ \A x \in Elems \ {last.arg} : Contains(last.pre, x) => Contains(me, x)

\* C4: Add(e) returns true exactly when e was absent, and then Len() grows
\* by one and e is contained; Add of a present element returns false and
\* leaves Len() and the traversal unchanged; a second Add of the same
\* element returns false and leaves Len() as it is.
C4_AddContract ==
  last.op = "Add" =>
    /\ last.ret <=> ~Contains(last.pre, last.arg)
    /\ last.ret => /\ SetLen(me) = SetLen(last.pre) + 1
                   /\ Contains(me, last.arg)
    /\ ~last.ret => /\ SetLen(me) = SetLen(last.pre)
                    /\ all(me.root) = all(last.pre.root)
    /\ LET again == Add(me, last.arg)
       IN ~again.ret /\ SetLen(again.set) = SetLen(me)

\* An Add of a present element that recoloured the tree on its way down.
C4_Witness ==
  /\ last.op = "Add"
  /\ ~last.ret
  /\ Contains(last.pre, last.arg)
  /\ me.root # last.pre.root
  /\ SetLen(me) >= 3

\* C5: Delete(e) of an element that is not in the set returns false and
\* leaves Len() and the traversal unchanged.
C5_DeleteAbsent ==
  (last.op = "Delete" /\ ~Contains(last.pre, last.arg)) =>
    /\ ~last.ret
    /\ SetLen(me) = SetLen(last.pre)
    /\ all(me.root) = all(last.pre.root)

\* A Delete of an absent element that restructured a tree of four elements.
C5_Witness ==
  /\ last.op = "Delete"
  /\ ~Contains(last.pre, last.arg)
  /\ Len(all(last.pre.root)) >= 4
  /\ me.root # last.pre.root

\* C6: no call dereferences a nil node; Delete and Contains on the empty
\* set return false and the traversal of the empty set yields nothing.
C6_NoNilDereference ==
  /\ ~panicked
  /\ (last.op \in {"Delete", "Contains"} /\ last.pre = EmptySet) => ~last.ret
  /\ (last.op = "ToSlice" /\ last.pre = EmptySet) => last.out = <<>>

\* A Delete on the empty set has returned.
C6_Witness ==
  /\ last.op = "Delete"
  /\ last.pre = EmptySet
  /\ ~panicked

\* C7: for a set built by Add or New alone, ToSlice() is the distinct
\* added elements in ascending order and its length is Len().
C7_ToSliceSorted ==
  (last.op = "ToSlice" /\ addsOnly) =>
    /\ last.out = SortedSeq(ref)
    /\ Len(last.out) = SetLen(me)

\* ToSlice of a set of four elements whose root is not the first one.
C7_Witness ==
  /\ last.op = "ToSlice"
  /\ addsOnly
  /\ Len(last.out) >= 4
  /\ me.root.left # Nil

\* C8: A.Equal(A.Clone()) is true for every set A.
C8_EqualClone ==
  last.op = "Clone" => last.ret

\* C9: Union returns a set holding exactly the elements of either operand,
\* without duplicates and with Len equal to their number; after Unite the
\* receiver holds exactly those elements.
C9_UnionUnite ==
  /\ last.op = "Union" =>
       /\ Elements(res) = Elements(me) \cup Elements(other)
       /\ StrictlyAscending(all(res.root))
       /\ SetLen(res) = Cardinality(Elements(me) \cup Elements(other))
  /\ last.op = "Unite" =>
       /\ Elements(me) = Elements(last.pre) \cup Elements(other)
       /\ StrictlyAscending(all(me.root))

\* A Unite of two overlapping sets, neither of which holds the other.
C9_Witness ==
  /\ last.op = "Unite"
  /\ Elements(last.pre) \cap Elements(other) # {}
  /\ Elements(other) \ Elements(last.pre) # {}
  /\ Elements(last.pre) \ Elements(other) # {}

\* C10: Difference returns a set holding exactly the elements of the
\* receiver that are not in the argument, with Len equal to their number.
C10_Difference ==
  last.op = "Difference" =>
    /\ Elements(res) = Elements(me) \ Elements(other)
    /\ StrictlyAscending(all(res.root))
    /\ SetLen(res) = Cardinality(Elements(me) \ Elements(other))

\* A Difference that dropped some elements of the receiver and kept others.
C10_Witness ==
  /\ last.op = "Difference"
  /\ Elements(me) \cap Elements(other) # {}
  /\ SetLen(res) >= 2

\* C11: Intersection holds exactly the elements present in both sets, and
\* A.Intersection(B).Equal(B.Intersection(A)) is true.
C11_Intersection ==
  last.op = "Intersection" =>
    /\ Elements(res) = Elements(me) \cap Elements(other)
    /\ SetLen(res) = Cardinality(Elements(me) \cap Elements(other))
    /\ last.ret

\* An Intersection that kept some elements of the receiver and dropped
\* others, with an argument that holds elements the receiver lacks.
C11_Witness ==
  /\ last.op = "Intersection"
  /\ Elements(res) # {}
  /\ Elements(me) \ Elements(other) # {}
  /\ Elements(other) \ Elements(me) # {}

SymDiff(S, T) == (S \ T) \cup (T \ S)

\* C12: SymmetricDifference holds exactly the elements in exactly one of
\* the sets, equals the union of the two differences, and
\* A.SymmetricDifference(B).Equal(B.SymmetricDifference(A)) is true.
C12_SymmetricDifference ==
  last.op = "SymmetricDifference" =>
    /\ Elements(res) = SymDiff(Elements(me), Elements(other))
    /\ Elements(res) = Elements(Union(Difference(me, other),
                                      Difference(other, me)))
    /\ SetLen(res) = Cardinality(SymDiff(Elements(me), Elements(other)))
    /\ last.ret

\* A SymmetricDifference of overlapping sets with elements from both sides.
C12_Witness ==
  /\ last.op = "SymmetricDifference"
  /\ Elements(me) \cap Elements(other) # {}
  /\ Elements(res) \cap Elements(me) # {}
  /\ Elements(res) \cap Elements(other) # {}

\* C13: IsSubsetOf is true exactly when every element of the receiver is
\* in the argument, and A.IsSupersetOf(B) equals B.IsSubsetOf(A).
C13_SubsetSuperset ==
  /\ last.op = "IsSubsetOf" =>
       (last.ret <=> Elements(me) \subseteq Elements(other))
  /\ last.op = "IsSupersetOf" =>
       /\ last.ret = IsSubsetOf(other, me)
       /\ last.ret <=> Elements(other) \subseteq Elements(me)

\* IsSubsetOf answered false for a receiver that shares an element with the
\* argument.
C13_Witness ==
  /\ last.op = "IsSubsetOf"
  /\ ~last.ret
  /\ Elements(me) \cap Elements(other) # {}

\* C14: Equal is true exactly when both sets hold the same elements, and
\* A.Equal(B) equals B.Equal(A).
C14_EqualExact ==
  last.op = "Equal" =>
    /\ last.ret <=> (Elements(me) = Elements(other))
    /\ last.ret = Equal(other, me)

\* C15: IsDisjoint is true exactly when no element of the receiver is in
\* the argument, and A.IsDisjoint(B) equals B.IsDisjoint(A).
C15_IsDisjoint ==
  last.op = "IsDisjoint" =>
    /\ last.ret <=> (Elements(me) \cap Elements(other) = {})
    /\ last.ret = IsDisjoint(other, me)

\* IsDisjoint answered false for sets neither of which holds the other.
C15_Witness ==
  /\ last.op = "IsDisjoint"
  /\ ~last.ret
  /\ Elements(me) \ Elements(other) # {}
  /\ Elements(other) \ Elements(me) # {}

ReadOnlyCalls ==
  {"Difference", "SymmetricDifference", "Intersection", "Union",
   "IsDisjoint", "IsSubsetOf", "IsSupersetOf", "Equal", "Clone", "ToSlice",
   "Contains", "All", "AllX"}

\* C16: the calls that only read leave the tree and Len() of the receiver
\* and of the argument as they were; Unite changes only its receiver.
C16_Frame ==
  [][/\ last'.op \in ReadOnlyCalls => (me' = me /\ other' = other)
     /\ last'.op = "Unite" => other' = other]_vars

\* A Union has returned a set larger than its receiver, which is still the
\* set it was before the call.
C16_Witness ==
  /\ last.op = "Union"
  /\ me = last.pre
  /\ other # EmptySet
  /\ SetLen(res) > SetLen(me)

\* The elements a traversal handed to its consumer.
Yielded(call) ==
  IF call.op = "AllX"
  THEN [j \in 1..Len(call.out) |-> call.out[j][2]]
  ELSE call.out

\* C17: when the consumer stops at its k-th element, yield is not called
\* again, no further node is visited, and exactly the k smallest elements
\* were yielded in ascending order.
C17_EarlyStop ==
  last.op \in {"All", "AllX"} =>
    /\ ~last.ret
    /\ last.arg \in 1..Cardinality(Elements(me)) =>
         Yielded(last) = SubSeq(SortedSeq(Elements(me)), 1, last.arg)

\* A consumer stopped at the second of at least four elements, before the
\* root was reached.
C17_Witness ==
  /\ last.op = "All"
  /\ last.arg = 2
  /\ Len(all(me.root)) >= 4
  /\ me.root.element > last.out[2]

\* C18: after Clear() the set is the empty set (root absent, Len() 0,
\* IsEmpty() true, nothing to traverse, nothing contained), and in every
\* state IsEmpty() is true exactly when the set holds no element.
C18_ClearAndIsEmpty ==
  /\ last.op = "Clear" =>
       /\ me = EmptySet
       /\ IsEmpty(me)
       /\ all(me.root) = <<>>
       /\ \A e \in Elems : ~Contains(me, e)
  /\ IsEmpty(me) <=> (Elements(me) = {})

\* C19: AllX(start) yields the elements in the order of All() and pairs the
\* i-th of them, counted from 0, with start+i; without an argument the
\* first index is 0.
C19_AllXIndex ==
  last.op = "AllX" =>
    LET first0 == IF last.start = <<>> THEN 0 ELSE last.start[1]
        elements == ToSlice(me)
    IN /\ Len(last.out) <= Len(elements)
       /\ last.arg = 0 => Len(last.out) = Len(elements)
       /\ \A j \in 1..Len(last.out) :
            last.out[j] = <<first0 + (j - 1), elements[j]>>

\* AllX(1) has run through a set of at least three elements.
C19_Witness ==
  /\ last.op = "AllX"
  /\ last.start = <<1>>
  /\ last.arg = 0
  /\ Len(last.out) >= 3

\* Add and Delete alone, over a domain wide enough for two absent elements
\* above and one below the elements of a four-element set.
NextBal ==
  \/ \E e \in ElemsBal : AddStep(e)
  \/ \E e \in ElemsBal : DeleteStep(e)

SpecBal == Init /\ [][NextBal]_vars

\* The number of black nodes on every path from root to a nil position, or
\* -1 when two paths differ.
RECURSIVE BlackHeight(_)
BlackHeight(root) ==
  IF root.k # "node"
  THEN 0
  ELSE LET l == BlackHeight(root.left)
           r == BlackHeight(root.right)
       IN IF l = -1 \/ r = -1 \/ l # r
          THEN -1
          ELSE l + (IF root.red THEN 0 ELSE 1)

\* C20: after every completed Add or Delete every path from the root to a
\* nil position passes through the same number of black nodes.
C20_BlackBalance ==
  last.op \in {"Add", "Delete"} => BlackHeight(me.root) # -1

\* The nodes of a tree, each with the subtree below it.
RECURSIVE Nodes(_)
Nodes(root) ==
  IF root.k = "node"
  THEN {root} \cup Nodes(root.left) \cup Nodes(root.right)
  ELSE {}

RedWithRedChild(n) == n.red /\ (isRed(n.left) \/ isRed(n.right))

LoneRedRight(n) == isRed(n.right) /\ ~isRed(n.left)

\* C21: after every completed Add or Delete no red node has a red child.
C21_NoRedRed ==
  last.op \in {"Add", "Delete"} =>
    \A n \in Nodes(me.root) : ~RedWithRedChild(n)

\* C22: after every completed Add or Delete that leaves a root node, the
\* root is black.
C22_RootBlack ==
  (last.op \in {"Add", "Delete"} /\ me.root.k = "node") => ~me.root.red

\* An Add whose insert returned a red root (the first node, or a root whose
\* colours were flipped on the way down), and a Delete whose delete_ did.
C22_Witness ==
  \/ /\ last.op = "Add"
     /\ isRed(insert(last.pre.root, last.arg).root)
     /\ last.pre.root # Nil
     /\ ~me.root.red
  \/ /\ last.op = "Delete"
     /\ last.pre.root # Nil
     /\ isRed(delete_(last.pre.root, last.arg).root)
     /\ ~me.root.red

\* C23: after every completed Add or Delete no node has a red right child
\* whose left sibling is not red as well.
C23_LeftLean ==
  last.op \in {"Add", "Delete"} =>
    \A n \in Nodes(me.root) : ~LoneRedRight(n)

\* C24: after every completed Add or Delete no node has a red right child.
C24_RedIsLeft ==
  last.op \in {"Add", "Delete"} =>
    \A n \in Nodes(me.root) : ~isRed(n.right)

\* The course of the Delete call recorded in last.
LastCourse ==
  IF last.op = "Delete" /\ last.pre.root # Nil
  THEN deleteCourse(last.pre.root, last.arg)
  ELSE NoCourse

\* The recorded course unlinks a node exactly when Delete returned true.
CourseAgreesWithDelete ==
  last.op = "Delete" => (last.ret <=> LastCourse.unlinked # Nil)

\* C25: the node in whose place delete_ or deleteMinimum returns nil has
\* no children, so no subtree is discarded.
C25_UnlinkedIsLeaf ==
  LET u == LastCourse.unlinked
  IN u # Nil => (u.left = Nil /\ u.right = Nil)

====
